---- MODULE Spec2Model ----
(***************************************************************************)
(* Mini-Obsidian note store (server.js): the notes table, the derived      *)
(* links / tags tables, the FTS5 index kept by triggers, and the HTTP      *)
(* handlers that write and read them.                                      *)
(*                                                                         *)
(* Text is modelled as a sequence of one-character strings, so that the    *)
(* two regular expressions of the content parser are computed character by *)
(* character.  A JSON body value is a record [t, s]: its JavaScript type   *)
(* and, for a string or a number, its text.                                *)
(***************************************************************************)
EXTENDS Integers, Sequences, FiniteSets, Bags, TLC

VARIABLES
  notes,  \* table notes: rowid -> [title, content]
  links,  \* table links: bag of [source_id, target_title]
  tags,   \* table tags: bag of [note_id, tag]
  fts,    \* notes_fts: bag of the documents [rowid, title, content] indexed
  held,   \* history: every rowid the notes table has handed out so far
  req,    \* the last request served: [op, id, title, ctype]
  res,    \* its response: [status, error, found, deleted]
  pc,     \* the statement upsertNote has reached ("idle" between handlers)
  cur     \* the upsertNote call in progress: [op, id, content]

vars == <<notes, links, tags, fts, held, req, res, pc, cur>>
db == <<notes, links, tags, fts>>

\* Largest rowid the model lets the notes table hand out.
MaxId == 2

-----------------------------------------------------------------------------
(* The texts of the model.                                                 *)

TitleA == <<"A">>
TitleB == <<"B">>

\* "[[B]] #x- #x": one link, one tag written twice (the first one followed
\* by a hyphen that \b makes the match give back)
CLinkTag == <<"[", "[", "B", "]", "]", " ", "#", "x", "-", " ", "#", "x">>
\* "[[A#h]][[ A]][[B|b]] #x #a #a": a heading, a padded title (the same
\* target twice), an alias, which WIKILINK_RE does not match, and two tags,
\* one of them written twice
CTwice == <<"[", "[", "A", "#", "h", "]", "]", "[", "[", " ", "A", "]", "]",
            "[", "[", "B", "|", "b", "]", "]",
            " ", "#", "x", " ", "#", "a", " ", "#", "a">>
\* the decimal text of the JSON number 5
CFive == <<"5">>

Titles == {TitleA, TitleB, <<>>}
Contents == {<<>>, CLinkTag, CTwice}

-----------------------------------------------------------------------------
(* Character classes of the two regular expressions, over the characters   *)
(* that occur in the modelled texts.                                       *)

\* \w of a JavaScript regular expression: [A-Za-z0-9_]
WordChars == {"A", "B", "a", "b", "h", "x", "5", "_"}

\* [\p{L}0-9_\-\/] of TAG_RE
TagChars == WordChars \cup {"-", "/"}

\* \s, and what String.prototype.trim removes
SpaceChars == {" ", "\n", "\t"}

\* the characters [^\]|#] excludes
LinkStops == {"]", "|", "#"}

RECURSIVE RunEnd(_, _, _)
\* First index >= i of s whose character is not in cls (Len(s)+1 when none):
\* the end of a greedy character-class run.
RunEnd(s, i, cls) ==
  IF i > Len(s) \/ s[i] \notin cls THEN i ELSE RunEnd(s, i + 1, cls)

RECURSIVE StopEnd(_, _, _)
\* First index >= i of s whose character is in stops (Len(s)+1 when none):
\* the end of a greedy negated-class run.
StopEnd(s, i, stops) ==
  IF i > Len(s) \/ s[i] \in stops THEN i ELSE StopEnd(s, i + 1, stops)

RECURSIVE Trim(_)
\* String.prototype.trim
Trim(s) ==
  IF s = <<>> THEN s
  ELSE IF Head(s) \in SpaceChars THEN Trim(Tail(s))
  ELSE IF s[Len(s)] \in SpaceChars THEN Trim(SubSeq(s, 1, Len(s) - 1))
  ELSE s

RECURSIVE LazyClose(_, _)
\* (?:#.*?)?\]\] after the '#': the first k >= i with s[k..k+1] = "]]" and
\* no line terminator before it; 0 when there is none.
LazyClose(s, k) ==
  IF k + 1 > Len(s) THEN 0
  ELSE IF s[k] = "]" /\ s[k + 1] = "]" THEN k
  ELSE IF s[k] = "\n" THEN 0
  ELSE LazyClose(s, k + 1)

\* WIKILINK_RE tried at index i: [from, to, end] of the capture group and
\* the index after the match, or end = 0 when it does not match there.
\* The group [^\]|#]+ is greedy; giving characters back never helps, since
\* the character after a shorter group is neither ']' nor '#'.
WikilinkAt(s, i) ==
  LET g == StopEnd(s, i + 2, LinkStops)
      no == [from |-> 0, to |-> 0, end |-> 0]
  IN  IF ~(i + 1 <= Len(s) /\ s[i] = "[" /\ s[i + 1] = "[") THEN no
      ELSE IF g = i + 2 \/ g > Len(s) THEN no
      ELSE IF s[g] = "]"
        THEN IF g + 1 <= Len(s) /\ s[g + 1] = "]"
               THEN [from |-> i + 2, to |-> g - 1, end |-> g + 2]
               ELSE no
      ELSE IF s[g] = "#"
        THEN LET k == LazyClose(s, g + 1)
             IN  IF k = 0 THEN no
                 ELSE [from |-> i + 2, to |-> g - 1, end |-> k + 2]
      ELSE no

RECURSIVE ScanLinks(_, _, _)
\* content.matchAll(WIKILINK_RE): leftmost matches, each search starting
\* where the previous match ended; the trimmed non-empty groups are added
\* to the Set.
ScanLinks(s, i, acc) ==
  IF i > Len(s) THEN acc
  ELSE LET m == WikilinkAt(s, i)
       IN  IF m.end = 0 THEN ScanLinks(s, i + 1, acc)
           ELSE LET t == Trim(SubSeq(s, m.from, m.to))
                IN  ScanLinks(s, m.end, IF t # <<>> THEN acc \cup {t} ELSE acc)

\* extractLinks on each text of the model, computed once
LinkTable == [c \in Contents \cup {CFive} |-> ScanLinks(c, 1, {})] @@ <<>>

extractLinks(content) == LinkTable[content]

\* \b between index e-1 and e of s
WordBoundary(s, e) ==
  LET before == e - 1 >= 1 /\ e - 1 <= Len(s) /\ s[e - 1] \in WordChars
      after  == e <= Len(s) /\ s[e] \in WordChars
  IN  before # after

RECURSIVE BoundaryBack(_, _, _)
\* The greedy group [..]+ gives characters back until \b holds: the largest
\* e in (lo, hi] with a word boundary at e, or 0.
BoundaryBack(s, lo, e) ==
  IF e <= lo THEN 0
  ELSE IF WordBoundary(s, e) THEN e
  ELSE BoundaryBack(s, lo, e - 1)

\* TAG_RE tried at index i: [from, to, end] as for WikilinkAt.  (^|\s)
\* takes the empty alternative at the start of the text first, then \s.
TagAfterHash(s, h) ==
  LET r == RunEnd(s, h + 1, TagChars)
      e == BoundaryBack(s, h + 1, r)
  IN  IF h <= Len(s) /\ s[h] = "#" /\ e # 0
        THEN [from |-> h + 1, to |-> e - 1, end |-> e]
        ELSE [from |-> 0, to |-> 0, end |-> 0]

TagAt(s, i) ==
  LET first == TagAfterHash(s, i)
  IN  IF i = 1 /\ first.end # 0 THEN first
      ELSE IF i <= Len(s) /\ s[i] \in SpaceChars THEN TagAfterHash(s, i + 1)
      ELSE [from |-> 0, to |-> 0, end |-> 0]

RECURSIVE ScanTags(_, _, _)
ScanTags(s, i, acc) ==
  IF i > Len(s) THEN acc
  ELSE LET m == TagAt(s, i)
       IN  IF m.end = 0 THEN ScanTags(s, i + 1, acc)
           ELSE ScanTags(s, m.end, acc \cup {SubSeq(s, m.from, m.to)})

\* extractTags on each text of the model, computed once
TagTable == [c \in Contents \cup {CFive} |-> ScanTags(c, 1, {})] @@ <<>>

extractTags(content) == TagTable[content]

-----------------------------------------------------------------------------
(* JSON body values.                                                       *)

Str(s) == [t |-> "string", s |-> s]
\* the JSON number 5; s is its decimal text
Num5 == [t |-> "number", s |-> CFive]
\* a field the body does not have
Undefined == [t |-> "undefined", s |-> <<>>]

TitleInputs == {Str(t) : t \in Titles} \cup {Undefined}
ContentInputs == {Str(c) : c \in Contents} \cup {Num5, Undefined}
\* :id of the route; 0 is the id JavaScript takes for false
IdInputs == 0 .. MaxId

-----------------------------------------------------------------------------
(* The database.  d is a record [notes, links, tags, fts]: notes maps a    *)
(* rowid to its row, links / tags / fts are bags of rows (the tables have  *)
(* no key, so a row can be stored more than once).                         *)

EmptyNotes == [i \in {} |-> [title |-> <<>>, content |-> <<>>]]

\* better-sqlite3 binds strings and numbers; binding undefined throws.
Bindable(v) == v.t \in {"string", "number"}

\* What a TEXT column stores for a bound value (TEXT affinity turns a
\* number into its decimal text).
TextOf(v) == v.s

\* Mutants of UniqueViolation: no UNIQUE constraint at all; a check that
\* also counts the row being updated.
UniqueViolationOff(ns, id, title) == FALSE
UniqueViolationAnyRow(ns, id, title) == \E m \in DOMAIN ns : ns[m].title = title

\* title TEXT UNIQUE: another row already has this title
UniqueViolation(ns, id, title) ==
  \E m \in DOMAIN ns : m # id /\ ns[m].title = title

\* id INTEGER PRIMARY KEY without AUTOINCREMENT: one more than the largest
\* rowid in the table.
LastInsertRowid(ns) ==
  IF DOMAIN ns = {} THEN 1
  ELSE (CHOOSE m \in DOMAIN ns : \A k \in DOMAIN ns : k <= m) + 1

FtsDoc(id, row) == [rowid |-> id, title |-> row.title, content |-> row.content]

\* INSERT INTO notes_fts(rowid, title, content)
FtsInsert(f, id, row) == f (+) SetToBag({FtsDoc(id, row)})

\* INSERT INTO notes_fts(notes_fts, rowid, title, content) VALUES('delete', ..)
FtsDelete(f, id, row) == f (-) SetToBag({FtsDoc(id, row)})

notes_ai(f, id, new) == FtsInsert(f, id, new)

\* Mutant of notes_ad: the trigger empties the index.
notes_adWipes(f, id, old) == EmptyBag

notes_ad(f, id, old) == FtsDelete(f, id, old)
\* Mutant of notes_au: the old document is not deleted.
notes_auInsertOnly(f, id, old, new) == FtsInsert(f, id, new)

notes_au(f, id, old, new) == FtsInsert(FtsDelete(f, id, old), id, new)

\* UPDATE notes SET title=?, content=?, updated_at=? WHERE id=?
RunUpdate(d, id, title, content) ==
  LET new == [title |-> TextOf(title), content |-> TextOf(content)]
  IN  IF ~(Bindable(title) /\ Bindable(content))
        THEN [ok |-> FALSE, error |-> "bind", d |-> d, id |-> id]
      ELSE IF id \notin DOMAIN d.notes
        THEN [ok |-> TRUE, error |-> "", d |-> d, id |-> id]
      ELSE IF UniqueViolation(d.notes, id, new.title)
        THEN [ok |-> FALSE, error |-> "unique", d |-> d, id |-> id]
      ELSE [ok |-> TRUE, error |-> "", id |-> id,
            d |-> [d EXCEPT !.notes = [d.notes EXCEPT ![id] = new],
                            !.fts = notes_au(d.fts, id, d.notes[id], new)]]

\* INSERT INTO notes(title, content, updated_at) VALUES (?, ?, ?)
RunInsert(d, title, content) ==
  LET new == [title |-> TextOf(title), content |-> TextOf(content)]
      id  == LastInsertRowid(d.notes)
  IN  IF ~(Bindable(title) /\ Bindable(content))
        THEN [ok |-> FALSE, error |-> "bind", d |-> d, id |-> 0]
      ELSE IF UniqueViolation(d.notes, id, new.title)
        THEN [ok |-> FALSE, error |-> "unique", d |-> d, id |-> 0]
      ELSE [ok |-> TRUE, error |-> "", id |-> id,
            d |-> [d EXCEPT !.notes = [m \in DOMAIN d.notes \cup {id} |->
                                         IF m = id THEN new ELSE d.notes[m]],
                            !.fts = notes_ai(d.fts, id, new)]]

\* Mutant of DeleteLinks: the old rows are left in place.
DeleteLinksKeepsRows(l, id) == l

\* DELETE FROM links WHERE source_id=?
DeleteLinks(l, id) == [r \in {x \in DOMAIN l : x.source_id # id} |-> l[r]]

\* Mutant of DeleteTags: the old rows are left in place.
DeleteTagsKeepsRows(t, id) == t

\* DELETE FROM tags WHERE note_id=?
DeleteTags(t, id) == [r \in {x \in DOMAIN t : x.note_id # id} |-> t[r]]

\* Mutant of ForeignKeyOk: the foreign keys are not enforced.
ForeignKeyOff(ns, id) == TRUE

\* FOREIGN KEY(...) REFERENCES notes(id); better-sqlite3 builds SQLite with
\* foreign keys enforced.
ForeignKeyOk(ns, id) == id \in DOMAIN ns

\* db.transaction(() => { insLink.run...; insTag.run... })(): every row is
\* inserted, or the first foreign key failure rolls all of them back.
InsertDerived(d, id, targets, tagset) ==
  IF targets \cup tagset # {} /\ ~ForeignKeyOk(d.notes, id)
    THEN [ok |-> FALSE, error |-> "foreign key", d |-> d]
    ELSE [ok |-> TRUE, error |-> "",
          d |-> [d EXCEPT
            !.links = @ (+) SetToBag({[source_id |-> id, target_title |-> t] : t \in targets}),
            !.tags  = @ (+) SetToBag({[note_id |-> id, tag |-> t] : t \in tagset})]]

-----------------------------------------------------------------------------
(* The read handlers, as functions of the tables.                          *)

\* The characters the unicode61 tokenizer of FTS5 keeps in a token:
\* letters and digits.
TokenChars == {"A", "B", "a", "b", "h", "x", "5"}

\* unicode61 folds upper case to lower case.
FoldChar(c) == CASE c = "A" -> "a" [] c = "B" -> "b" [] OTHER -> c
FoldCase(s) == [i \in 1 .. Len(s) |-> FoldChar(s[i])]

RECURSIVE ScanTokens(_, _, _)
ScanTokens(s, i, acc) ==
  IF i > Len(s) THEN acc
  ELSE IF s[i] \in TokenChars
    THEN LET e == RunEnd(s, i, TokenChars)
         IN  ScanTokens(s, e, acc \cup {FoldCase(SubSeq(s, i, e - 1))})
  ELSE ScanTokens(s, i + 1, acc)

\* the one-word queries of the model
Queries == {<<"b">>, <<"x">>, <<"A">>, <<"5">>}

\* the tokens of each text of the model, computed once
TokenTable ==
  [s \in Titles \cup Contents \cup {CFive} \cup Queries |-> ScanTokens(s, 1, {})] @@ <<>>

Tokens(s) == TokenTable[s]

\* notes_fts MATCH q for a query of one bare word: the word, tokenized like
\* the text, occurs in the title or in the content.
FtsMatch(doc, q) == Tokens(q) \subseteq Tokens(doc.title) \cup Tokens(doc.content)

\* FROM notes_fts f JOIN notes n ON n.id = f.rowid WHERE notes_fts MATCH ?
FtsRows(ns, f, q) ==
  {n \in DOMAIN ns : \E doc \in BagToSet(f) : doc.rowid = n /\ FtsMatch(doc, q)}

\* app.get('/api/search'): the ids of the rows returned; none for a blank
\* query.  (LIMIT 50 is more rows than the model holds.)
Search(ns, f, q) == IF Trim(q) = <<>> THEN {} ELSE FtsRows(ns, f, Trim(q))

\* Mutant of Backlinks: the WHERE clause on the title is lost.
BacklinksAnyTarget(ns, l, id) ==
  {n \in DOMAIN ns : \E r \in BagToSet(l) : r.source_id = n}

\* app.get('/api/notes/:id/backlinks'): the ids of the rows returned, for
\* an id that has a note.
Backlinks(ns, l, id) ==
  {n \in DOMAIN ns : \E r \in BagToSet(l) :
     r.source_id = n /\ r.target_title = ns[id].title}

\* The number of rows of that result that carry the id n: one per Link row
\* of n with the title of note id.
BacklinkCopies(ns, l, id, n) ==
  CopiesIn([source_id |-> n, target_title |-> ns[id].title], l)

\* Mutant of GraphEdges: a link is resolved only if its target already
\* existed when the source note was last given an id (target id below the
\* source id), as a resolution done at write time would leave it.
GraphEdgesEager(ns, l) ==
  {[source |-> p[1].source_id, target |-> p[2]] :
     p \in {q \in BagToSet(l) \X DOMAIN ns :
              ns[q[2]].title = q[1].target_title /\ q[2] < q[1].source_id}}

\* app.get('/api/graph'), edges: links l JOIN notes n ON n.title =
\* l.target_title
GraphEdges(ns, l) ==
  {[source |-> p[1].source_id, target |-> p[2]] :
     p \in {q \in BagToSet(l) \X DOMAIN ns : ns[q[2]].title = q[1].target_title}}

\* app.get('/api/graph'), nodes
GraphNodes(ns) == {[id |-> n, title |-> ns[n].title] : n \in DOMAIN ns}

\* app.post('/api/ai/chat'), lines 217-236: the ids of the notes the
\* context is drawn from: the anchor, then either every note or the notes
\* the full-text query returns.
ContextPool(ns, f, noteId, q, includeAll) ==
  (IF noteId # 0 /\ noteId \in DOMAIN ns THEN {noteId} ELSE {})
    \cup (IF includeAll THEN DOMAIN ns ELSE FtsRows(ns, f, q))

\* The code points of the characters of a tag, for the BINARY collation.
CharCode(c) ==
  CASE c = "-" -> 45 [] c = "/" -> 47 [] c = "5" -> 53 [] c = "A" -> 65
    [] c = "B" -> 66 [] c = "_" -> 95 [] c = "a" -> 97 [] c = "b" -> 98
    [] c = "h" -> 104 [] c = "x" -> 120

RECURSIVE TextLess(_, _)
\* s sorts before t: ORDER BY tag ASC
TextLess(s, t) ==
  IF t = <<>> THEN FALSE
  ELSE IF s = <<>> THEN TRUE
  ELSE IF Head(s) = Head(t) THEN TextLess(Tail(s), Tail(t))
  ELSE CharCode(Head(s)) < CharCode(Head(t))

RECURSIVE RowCount(_, _)
\* COUNT(*) over the rows of a group
RowCount(t, group) ==
  IF group = {} THEN 0
  ELSE LET r == CHOOSE x \in group : TRUE
       IN  CopiesIn(r, t) + RowCount(t, group \ {r})

\* ORDER BY count DESC, tag ASC
TagRowBefore(a, b) ==
  a.count > b.count \/ (a.count = b.count /\ TextLess(a.tag, b.tag))

\* app.get('/api/tags'): one row per tag of the tags table with the number
\* of its rows, in the order of the query.
TagCounts(t) ==
  LET groups == {[tag |-> g, count |-> RowCount(t, {r \in BagToSet(t) : r.tag = g})] :
                   g \in {r.tag : r \in BagToSet(t)}}
      n == Cardinality(groups)
  IN  CHOOSE o \in [1 .. n -> groups] :
        \A i, j \in 1 .. n : i < j => TagRowBefore(o[i], o[j])

-----------------------------------------------------------------------------
(* The context of app.post('/api/ai/chat') and the errors of the full-text *)
(* query.  The rows of a SELECT without a total order come in any order,   *)
(* so a query result is the set of the sequences it may return.           *)

\* The prompts and search texts of the model: a word two texts carry, a
\* word followed by a character the query language has no use for, a word
\* followed by an unterminated string, and a blank text.
Prompts == {<<"x">>, <<"b", "%">>, <<"b", "\"">>, <<" ">>}

\* Line 207: topK = 5 when the body has none
DefaultTopK == 5

\* topK of the body: negative, zero, fewer than the notes, the default.
TopKInputs == {-1, 0, 1, DefaultTopK}

\* LIMIT 50 of line 223
IncludeAllLimit == 50

\* The characters of an FTS5 bareword.
FtsBarewordChars == TokenChars \cup {"_"}

RECURSIVE FtsScan(_, _, _)
\* The FTS5 query parser over barewords and quoted strings (the operators
\* of the query language are not among the texts of the model): a string
\* must be closed, and outside a string only barewords and white space are
\* accepted.
FtsScan(q, i, inString) ==
  IF i > Len(q) THEN ~inString
  ELSE IF q[i] = "\"" THEN FtsScan(q, i + 1, ~inString)
  ELSE IF inString \/ q[i] \in FtsBarewordChars \cup SpaceChars
         THEN FtsScan(q, i + 1, inString)
  ELSE FALSE

\* notes_fts MATCH q raises no syntax error.
FtsSyntaxOk(q) == FtsScan(q, 1, FALSE)

RECURSIVE LikeMatch(_, _)
\* t LIKE p: % is any run of characters, _ any one character, letters
\* compare without case.
LikeMatch(p, t) ==
  IF p = <<>> THEN t = <<>>
  ELSE IF Head(p) = "%"
         THEN LikeMatch(Tail(p), t) \/ (t # <<>> /\ LikeMatch(p, Tail(t)))
  ELSE IF t = <<>> THEN FALSE
  ELSE /\ Head(p) = "_" \/ FoldChar(Head(p)) = FoldChar(Head(t))
       /\ LikeMatch(Tail(p), Tail(t))

\* Line 234: FROM notes WHERE title LIKE '%'+q+'%'
LikeRows(ns, q) ==
  {n \in DOMAIN ns : LikeMatch(<<"%">> \o q \o <<"%">>, ns[n].title)}

\* LIMIT k over a set of rows: the sets of rows it may keep.  A negative
\* LIMIT is no limit in SQLite.
Limited(rows, k) ==
  IF k < 0 \/ k >= Cardinality(rows) THEN {rows}
  ELSE {S \in SUBSET rows : Cardinality(S) = k}

\* The sequences that hold each row of S once.
Orderings(S) ==
  {o \in [1 .. Cardinality(S) -> S] : \A i, j \in 1 .. Cardinality(S) : o[i] = o[j] => i = j}

\* The sequences a query with the rows and LIMIT k may return.
QueryResults(rows, k) == UNION {Orderings(S) : S \in Limited(rows, k)}

\* Line 226: prompt.replace(/"/g, '')
StripQuotes(prompt) == SelectSeq(prompt, LAMBDA c : c # "\"")

\* Lines 210-211
EmptyContext == [contextNotes |-> <<>>, usedIds |-> {}]

\* Mutant of pushNote: usedIds is not consulted.
pushNoteAlways(c, n) ==
  [contextNotes |-> Append(c.contextNotes, n), usedIds |-> c.usedIds \cup {n}]

\* Lines 213-215, for a row n (its id)
pushNote(c, n) ==
  IF n \in c.usedIds THEN c
  ELSE [contextNotes |-> Append(c.contextNotes, n), usedIds |-> c.usedIds \cup {n}]

RECURSIVE ForEachPush(_, _)
\* rows.forEach(pushNote)
ForEachPush(c, rows) ==
  IF rows = <<>> THEN c ELSE ForEachPush(pushNote(c, Head(rows)), Tail(rows))

\* Lines 217-220: noteId 0 or absent is falsy; a noteId without a row gives
\* undefined, which pushNote ignores.
PushAnchor(ns, noteId) ==
  IF noteId # 0 /\ noteId \in DOMAIN ns THEN pushNote(EmptyContext, noteId)
  ELSE EmptyContext

\* Lines 228-235: the full-text query fell into the catch.
FellBack(q, includeAll) == ~includeAll /\ ~FtsSyntaxOk(q)

\* Mutant of ContextRows: the catch of line 232 adds nothing.
ContextRowsNoFallback(ns, f, q, topK, includeAll) ==
  IF includeAll THEN QueryResults(DOMAIN ns, IncludeAllLimit)
  ELSE IF FtsSyntaxOk(q) THEN QueryResults(FtsRows(ns, f, q), topK)
  ELSE {<<>>}

\* Lines 222-236: the results of the one query that feeds the context after
\* the anchor.  all() throws before any row is pushed.
ContextRows(ns, f, q, topK, includeAll) ==
  IF includeAll THEN QueryResults(DOMAIN ns, IncludeAllLimit)
  ELSE IF FtsSyntaxOk(q) THEN QueryResults(FtsRows(ns, f, q), topK)
  ELSE QueryResults(LikeRows(ns, q), topK)

\* Lines 210-236: the contexts the handler may build.
ChatContexts(ns, f, prompt, noteId, topK, includeAll) ==
  {ForEachPush(PushAnchor(ns, noteId), rows).contextNotes :
     rows \in ContextRows(ns, f, StripQuotes(prompt), topK, includeAll)}

-----------------------------------------------------------------------------
(* upsertNote and the write handlers.  better-sqlite3 is synchronous and   *)
(* the handlers never await, so a handler runs from its first statement to *)
(* its response before the next request is looked at.  Every statement     *)
(* outside db.transaction commits on its own.                              *)

\* Lines 93-100: the UPDATE when id is truthy, else the INSERT.
WriteRow(d, id, title, content) ==
  IF id # 0 THEN RunUpdate(d, id, title, content)
            ELSE RunInsert(d, title, content)

\* Lines 106-116: content.matchAll throws a TypeError unless content is a
\* string; then the inserts of the new rows, in one transaction.
Rebuild(d, id, content) ==
  IF content.t # "string"
    THEN [ok |-> FALSE, error |-> "type", d |-> d]
    ELSE InsertDerived(d, id, extractLinks(content.s), extractTags(content.s))

\* upsertNote: [ok, error, d, id, found]; d is the database as the call
\* leaves it, also when it throws; found is whether the final SELECT
\* returns a row.
upsertNote(d, id, title, content) ==
  LET w  == WriteRow(d, id, title, content)
      d1 == [w.d EXCEPT !.links = DeleteLinks(@, w.id)]
      d2 == [d1 EXCEPT !.tags = DeleteTags(@, w.id)]
      tx == Rebuild(d2, w.id, content)
  IN  IF ~w.ok
        THEN [ok |-> FALSE, error |-> w.error, d |-> w.d, id |-> 0, found |-> FALSE]
        ELSE [ok |-> tx.ok, error |-> tx.error, d |-> tx.d, id |-> w.id,
              found |-> tx.ok /\ w.id \in DOMAIN tx.d.notes]

Database == [notes |-> notes, links |-> links, tags |-> tags, fts |-> fts]

NoReq == [op |-> "none", id |-> 0, content |-> Undefined]

\* The event loop runs one callback at a time.
EventLoopIdle == pc = "idle"

\* The model hands out rowids up to MaxId only.
RoomFor(id) == id # 0 \/ LastInsertRowid(notes) <= MaxId

Store(d) ==
  /\ notes' = d.notes
  /\ links' = d.links
  /\ tags' = d.tags
  /\ fts' = d.fts
  /\ held' = held \cup DOMAIN d.notes

\* The request as the route sees it: the operation, :id (0 for a create),
\* the title of the body and the JavaScript type of its content.
Request(op, id, title, content) ==
  req' = [op |-> op, id |-> id, title |-> title, ctype |-> content.t]

Respond(r, okStatus) ==
  res' = [status |-> IF r.ok THEN okStatus ELSE 400,
          error |-> r.error, found |-> r.found, deleted |-> 0]

\* app.post('/api/notes'): content defaults to '' when the body has none.
Create(title, content) ==
  LET c == IF content.t = "undefined" THEN Str(<<>>) ELSE content
      r == upsertNote(Database, 0, title, c)
  IN  /\ EventLoopIdle
      /\ RoomFor(0)
      /\ Store(r.d)
      /\ Request("create", 0, title, content)
      /\ Respond(r, 201)
      /\ UNCHANGED <<pc, cur>>

\* app.put('/api/notes/:id')
Update(id, title, content) ==
  LET r == upsertNote(Database, id, title, content)
  IN  /\ EventLoopIdle
      /\ RoomFor(id)
      /\ Store(r.d)
      /\ Request("update", id, title, content)
      /\ Respond(r, 200)
      /\ UNCHANGED <<pc, cur>>

\* app.delete('/api/notes/:id')
Delete(id) ==
  /\ EventLoopIdle
  /\ links' = DeleteLinks(links, id)
  /\ tags' = DeleteTags(tags, id)
  /\ notes' = [m \in DOMAIN notes \ {id} |-> notes[m]]
  /\ fts' = IF id \in DOMAIN notes THEN notes_ad(fts, id, notes[id]) ELSE fts
  /\ Request("delete", id, Undefined, Undefined)
  /\ res' = [status |-> 200, error |-> "", found |-> FALSE,
             deleted |-> IF id \in DOMAIN notes THEN 1 ELSE 0]
  /\ UNCHANGED <<held, pc, cur>>

Init ==
  /\ notes = EmptyNotes
  /\ links = EmptyBag
  /\ tags = EmptyBag
  /\ fts = EmptyBag
  /\ held = {}
  /\ req = [op |-> "none", id |-> 0, title |-> Undefined, ctype |-> "undefined"]
  /\ res = [status |-> 0, error |-> "", found |-> FALSE, deleted |-> 0]
  /\ pc = "idle"
  /\ cur = NoReq

Next ==
  \/ \E title \in TitleInputs, content \in ContentInputs : Create(title, content)
  \/ \E id \in IdInputs, title \in TitleInputs, content \in ContentInputs :
       Update(id, title, content)
  \/ \E id \in IdInputs : Delete(id)

Spec == Init /\ [][Next]_vars

-----------------------------------------------------------------------------
(* The same handlers statement by statement: each statement of upsertNote  *)
(* outside db.transaction commits on its own, so the database passes       *)
(* through the states between them.  pc is the statement upsertNote has    *)
(* reached, cur the call in progress.                                      *)

\* Mutant of ReaderMayRun: a read handler is served while upsertNote is
\* between two statements (as it would be if upsertNote awaited them).
ReaderMayRunAnytime == TRUE

\* A read handler is a callback of the same event loop: it runs only when
\* no other callback is running.
ReaderMayRun == EventLoopIdle

\* Lines 93-100, from a POST (id 0, content defaulted) or a PUT.
BeginWrite(op, id, title, content) ==
  LET w == WriteRow(Database, id, title, content)
  IN  /\ EventLoopIdle
      /\ RoomFor(id)
      /\ Store(w.d)
      /\ Request(op, id, title, content)
      /\ IF w.ok
           THEN /\ pc' = "row"
                /\ cur' = [op |-> op, id |-> w.id, content |-> content]
                /\ UNCHANGED res
           ELSE /\ Respond([ok |-> FALSE, error |-> w.error, found |-> FALSE], 400)
                /\ UNCHANGED <<pc, cur>>

BeginCreate(title, content) ==
  BeginWrite("create", 0, title,
             IF content.t = "undefined" THEN Str(<<>>) ELSE content)

BeginUpdate(id, title, content) == BeginWrite("update", id, title, content)

\* Line 103
StepDeleteLinks ==
  /\ pc = "row"
  /\ links' = DeleteLinks(links, cur.id)
  /\ pc' = "links"
  /\ UNCHANGED <<notes, tags, fts, held, req, res, cur>>

\* Line 104
StepDeleteTags ==
  /\ pc = "links"
  /\ tags' = DeleteTags(tags, cur.id)
  /\ pc' = "tags"
  /\ UNCHANGED <<notes, links, fts, held, req, res, cur>>

\* Lines 106-118 and the response of the route
StepRebuild ==
  LET tx == Rebuild(Database, cur.id, cur.content)
  IN  /\ pc = "tags"
      /\ Store(tx.d)
      /\ Respond([ok |-> tx.ok, error |-> tx.error,
                  found |-> tx.ok /\ cur.id \in DOMAIN notes],
                 IF cur.op = "create" THEN 201 ELSE 200)
      /\ pc' = "idle"
      /\ cur' = NoReq
      /\ UNCHANGED req

NextSteps ==
  \/ \E title \in TitleInputs, content \in ContentInputs : BeginCreate(title, content)
  \/ \E id \in IdInputs, title \in TitleInputs, content \in ContentInputs :
       BeginUpdate(id, title, content)
  \/ StepDeleteLinks
  \/ StepDeleteTags
  \/ StepRebuild
  \/ \E id \in IdInputs : Delete(id)

SpecSteps == Init /\ [][NextSteps]_vars

-----------------------------------------------------------------------------
(* The handlers that read: the chat route and the search route.  The chat  *)
(* route awaits Ollama after the context is built; what follows the await  *)
(* uses only the locals of the call, so the route is one step here.  The   *)
(* bodies of the model vary topK and includeAll while Ollama answers, and  *)
(* vary what Ollama does for a body that leaves them to their defaults.    *)

\* What the one fetch of lines 250-260 may do: fetch rejects; a status
\* outside 200-299 whose body is read; such a status whose body cannot be
\* read (r.text() rejects); a success whose body is JSON; a success whose
\* body r.json() rejects.
OllamaOutcomes == {"unreachable", "error", "errorBodyLost", "ok", "okBodyBad"}

\* Lines 254-268: the status of the response.  Every rejection inside the
\* try lands in the catch of line 259.
ChatStatus(ollama) ==
  CASE ollama = "ok" -> 200
    [] ollama = "error" -> 502
    [] OTHER -> 503

ChatError(ollama) ==
  CASE ollama = "ok" -> ""
    [] ollama = "error" -> "Ollama error"
    [] OTHER -> "Failed to reach Ollama server"

\* app.post('/api/ai/chat') with a string prompt.  res carries what the
\* call built (contextNotes), whether the full-text query fell back, the
\* number of fetches and what Ollama did.
Chat(prompt, noteId, topK, includeAll, ollama) ==
  /\ EventLoopIdle
  /\ req' = [op |-> "chat", id |-> noteId, title |-> Undefined, ctype |-> "undefined",
             prompt |-> prompt, topK |-> topK, includeAll |-> includeAll]
  /\ IF Trim(prompt) = <<>>
       THEN res' = [status |-> 400, error |-> "Prompt required", found |-> FALSE,
                    deleted |-> 0, contextNotes |-> <<>>, fellBack |-> FALSE,
                    fetches |-> 0, ollama |-> "none"]
       ELSE \E c \in ChatContexts(notes, fts, prompt, noteId, topK, includeAll) :
              res' = [status |-> ChatStatus(ollama), error |-> ChatError(ollama),
                      found |-> FALSE, deleted |-> 0, contextNotes |-> c,
                      fellBack |-> FellBack(StripQuotes(prompt), includeAll),
                      fetches |-> 1, ollama |-> ollama]
  /\ UNCHANGED <<notes, links, tags, fts, held, pc, cur>>

\* app.get('/api/search'): a blank q is answered before the statement is
\* prepared; an error of the query is not caught, and Express answers 500.
SearchRoute(q) ==
  LET t == Trim(q)
  IN  /\ EventLoopIdle
      /\ req' = [op |-> "search", id |-> 0, title |-> Undefined, ctype |-> "undefined",
                 prompt |-> q]
      /\ res' = IF t = <<>>
                  THEN [status |-> 200, error |-> "", found |-> FALSE, deleted |-> 0,
                        rows |-> {}, queried |-> FALSE]
                ELSE IF ~FtsSyntaxOk(t)
                  THEN [status |-> 500, error |-> "fts5: syntax error", found |-> FALSE,
                        deleted |-> 0, rows |-> {}, queried |-> TRUE]
                ELSE [status |-> 200, error |-> "", found |-> FALSE, deleted |-> 0,
                      rows |-> Search(notes, fts, q), queried |-> TRUE]
      /\ UNCHANGED <<notes, links, tags, fts, held, pc, cur>>

NextReads ==
  \/ Next
  \/ \E prompt \in Prompts, noteId \in IdInputs, topK \in TopKInputs,
        includeAll \in BOOLEAN :
       Chat(prompt, noteId, topK, includeAll, "ok")
  \/ \E prompt \in Prompts, noteId \in IdInputs, ollama \in OllamaOutcomes :
       Chat(prompt, noteId, DefaultTopK, FALSE, ollama)
  \/ \E q \in Prompts \cup {<<>>} : SearchRoute(q)

SpecReads == Init /\ [][NextReads]_vars

-----------------------------------------------------------------------------
(* Properties of the write path.                                           *)

LinkTargets(l, n) == {r.target_title : r \in {x \in DOMAIN l : x.source_id = n}}
TagsOf(t, n) == {r.tag : r \in {x \in DOMAIN t : x.note_id = n}}
IsWrite(r) == r.op \in {"create", "update"}

C2_FailedWriteChangesNothing ==
  [][(IsWrite(req') /\ res'.status = 400) => UNCHANGED db]_vars

\* C3 as claimed: an update of an id no note has answers 404 (as the GET of
\* a missing note does) and changes nothing.
C3_UpdateMissingIsNotFound ==
  [][(req'.op = "update" /\ req'.id \notin DOMAIN notes)
       => (res'.status = 404 /\ UNCHANGED db)]_vars

\* C4 as claimed: every stored note has a non-empty title.
C4_TitlesNonEmpty == \A n \in DOMAIN notes : notes[n].title # <<>>

TitleTaken(ids, title) ==
  Bindable(title) /\ \E m \in ids : notes[m].title = TextOf(title)

\* C5: a create with a title some note has, and an update of an existing
\* note to a title another note has, answer 400 and leave all four tables
\* unchanged; an update that keeps the note's own title is never refused
\* for its title, and succeeds whenever its content is a string.
C5_TitleCollision ==
  [][/\ (req'.op = "create" /\ TitleTaken(DOMAIN notes, req'.title))
          => (res'.status = 400 /\ UNCHANGED db)
     /\ (req'.op = "update" /\ req'.id \in DOMAIN notes
           /\ TitleTaken(DOMAIN notes \ {req'.id}, req'.title))
          => (res'.status = 400 /\ UNCHANGED db)
     /\ (req'.op = "update" /\ req'.id \in DOMAIN notes
           /\ TitleTaken({req'.id}, req'.title))
          => /\ res'.error # "unique"
             /\ req'.ctype = "string" =>
                  /\ res'.status = 200
                  /\ notes'[req'.id].title = notes[req'.id].title]_vars

\* Two notes exist and the last request, an update of one to the title of
\* the other, was refused.
C5_Witness ==
  /\ req.op = "update" /\ req.id \in DOMAIN notes
  /\ TitleTaken(DOMAIN notes \ {req.id}, req.title)
  /\ res.status = 400 /\ res.error = "unique"

\* C6: no two distinct notes have the same title.
C6_TitlesUnique ==
  \A m, n \in DOMAIN notes : m # n => notes[m].title # notes[n].title

\* Two notes exist and the last request was a create with the title of one
\* of them.
C6_Witness ==
  /\ Cardinality(DOMAIN notes) >= 2
  /\ req.op = "create" /\ TitleTaken(DOMAIN notes, req.title)

\* no derived row and no search document carries the id
Gone(id) ==
  /\ \A r \in BagToSet(links) : r.source_id # id
  /\ \A r \in BagToSet(tags) : r.note_id # id
  /\ \A doc \in BagToSet(fts) : doc.rowid # id

\* no result of a read handler contains the id
Unseen(id) ==
  /\ \A n \in GraphNodes(notes) : n.id # id
  /\ \A e \in GraphEdges(notes, links) : e.source # id /\ e.target # id
  /\ \A b \in DOMAIN notes : id \notin Backlinks(notes, links, b)
  /\ \A q \in Queries :
       /\ id \notin Search(notes, fts, q)
       /\ \A a \in IdInputs, all \in BOOLEAN :
            id \notin ContextPool(notes, fts, a, q, all)

\* C7 as claimed: the delete of an existing note leaves no row, document or
\* read result with its id, and none appears for an id that has been
\* deleted until a create is served.
C7_DeletedIdStaysAbsent ==
  [][\A id \in 1 .. MaxId :
       /\ (req'.op = "delete" /\ req'.id = id /\ id \in DOMAIN notes)
            => (Gone(id)' /\ Unseen(id)')
       /\ (id \in held \ DOMAIN notes /\ req'.op # "create")
            => (Gone(id)' /\ Unseen(id)')]_vars

\* C8: the search index holds exactly one document per existing note, with
\* the note's current title and content, and no other document.
C8_SearchIndexInSync ==
  /\ \A n \in DOMAIN notes : CopiesIn(FtsDoc(n, notes[n]), fts) = 1
  /\ \A doc \in BagToSet(fts) :
       doc.rowid \in DOMAIN notes /\ doc = FtsDoc(doc.rowid, notes[doc.rowid])

\* An update has just given one of two notes the title "B" and a content
\* with a link and a tag, and the index holds two documents.
C8_Witness ==
  /\ req.op = "update" /\ res.status = 200 /\ res.found
  /\ req.id \in DOMAIN notes
  /\ notes[req.id].content = CLinkTag /\ notes[req.id].title = TitleB
  /\ BagCardinality(fts) = 2

\* C10: the graph has the edge {source, target} exactly when target is an
\* existing note and some Link row of source names target's current title;
\* so a link to a title no note has gives no edge, and gives one in the
\* state in which a note has come to carry that title.
C10_EdgesResolveByTitle ==
  \A s \in 1 .. MaxId, t \in 1 .. MaxId :
    ([source |-> s, target |-> t] \in GraphEdges(notes, links))
      <=> /\ t \in DOMAIN notes
          /\ \E r \in BagToSet(links) :
               r.source_id = s /\ r.target_title = notes[t].title

\* Note 1 links to "B"; the last request created note 2 with that title,
\* and the edge from 1 to 2 is in the graph.
C10_Witness ==
  /\ req.op = "create" /\ res.status = 201
  /\ 2 \in DOMAIN notes /\ notes[2].title = TitleB /\ extractLinks(notes[2].content) = {}
  /\ [source |-> 1, target |-> 2] \in GraphEdges(notes, links)

-----------------------------------------------------------------------------
(* Readers and the rebuild (under SpecSteps).                              *)

-----------------------------------------------------------------------------
(* The read handlers.                                                      *)

-----------------------------------------------------------------------------
(* The chat route and the search route (under SpecReads).  A read leaves   *)
(* the tables as they are, so the state after it shows both what it was    *)
(* asked and what it read.                                                 *)

\* A chat request that got past the prompt test, so that a context was built.
ChatServed == req.op = "chat" /\ res.status # 400

\* C12: the context of a chat request never holds a note id twice, and when
\* noteId is the id of an existing note that id is its first entry, also
\* when the full-text query or the includeAll listing returns that note.
C12_ContextDistinctAnchorFirst ==
  ChatServed =>
    LET c == res.contextNotes
    IN  /\ \A i, j \in 1 .. Len(c) : c[i] = c[j] => i = j
        /\ req.id \in DOMAIN notes => Len(c) >= 1 /\ c[1] = req.id

\* The anchor is also a row of the full-text query, which returns two notes:
\* the context holds two entries, the anchor first.
C12_Witness ==
  /\ ChatServed /\ ~req.includeAll /\ req.topK = DefaultTopK
  /\ FtsSyntaxOk(StripQuotes(req.prompt))
  /\ req.id \in FtsRows(notes, fts, StripQuotes(req.prompt))
  /\ Cardinality(FtsRows(notes, fts, StripQuotes(req.prompt))) = 2
  /\ Len(res.contextNotes) = 2 /\ res.contextNotes[1] = req.id

C14_UpstreamFailuresDistinguished ==
  [][(req'.op = "chat" /\ res'.ollama \in {"unreachable", "error", "errorBodyLost"})
       => /\ res'.ollama = "unreachable" => res'.status = 503
          /\ res'.ollama \in {"error", "errorBodyLost"} => res'.status = 502
          /\ res'.fetches = 1 /\ res'.status # 200
          /\ UNCHANGED <<notes, links, tags, fts>>]_vars

\* C15 as claimed: the context holds at most 50 notes and the anchor with
\* includeAll, else at most topK notes (none when topK is not positive) and
\* the anchor.
C15_ContextBounded ==
  ChatServed =>
    Len(res.contextNotes)
      <= (IF req.includeAll THEN IncludeAllLimit
          ELSE IF req.topK > 0 THEN req.topK ELSE 0)
         + (IF req.id \in DOMAIN notes THEN 1 ELSE 0)

-----------------------------------------------------------------------------
(* Derived rows and their notes.                                           *)

\* C16: every Link row's source id and every Tag row's note id is the id of
\* an existing note, whatever creates, updates (also of an id no note has)
\* and deletes were served.
C16_DerivedRowsHaveOwner ==
  /\ \A r \in BagToSet(links) : r.source_id \in DOMAIN notes
  /\ \A r \in BagToSet(tags) : r.note_id \in DOMAIN notes

\* An update of an id no note has, with a content that has links and tags,
\* was refused by the foreign keys while another note keeps its rows.
C16_Witness ==
  /\ req.op = "update" /\ req.id \notin DOMAIN notes /\ req.id # 0
  /\ res.status = 400 /\ res.error = "foreign key"
  /\ links # EmptyBag /\ tags # EmptyBag

-----------------------------------------------------------------------------
(* What a write leaves alone, and the ids.                                 *)

LinkRowsOf(l, n) == [r \in {x \in DOMAIN l : x.source_id = n} |-> l[r]]
TagRowsOf(t, n) == [r \in {x \in DOMAIN t : x.note_id = n} |-> t[r]]
DocsOf(f, n) == [r \in {x \in DOMAIN f : x.rowid = n} |-> f[r]]

\* C18: a create, update or delete leaves every note other than the one it
\* names with its title, content, Link rows, Tag rows and search document,
\* also when the named note takes or gives up a title the other links to;
\* a delete of an id no note has answers 0 and changes nothing.
C18_OtherNotesUntouched ==
  [][/\ req'.op \in {"create", "update", "delete"}
          => \A m \in DOMAIN notes \ {req'.id} :
               /\ m \in DOMAIN notes' /\ notes'[m] = notes[m]
               /\ LinkRowsOf(links', m) = LinkRowsOf(links, m)
               /\ TagRowsOf(tags', m) = TagRowsOf(tags, m)
               /\ DocsOf(fts', m) = DocsOf(fts, m)
     /\ (req'.op = "delete" /\ req'.id \notin DOMAIN notes)
          => /\ res'.status = 200 /\ res'.deleted = 0
             /\ UNCHANGED <<notes, links, tags, fts>>]_vars

\* An update has given a note the title "B" while another note, which
\* links to "B" and carries a tag, is as it was written.
C18_Witness ==
  /\ req.op = "update" /\ res.status = 200 /\ res.found
  /\ req.id \in DOMAIN notes
  /\ notes[req.id].title = TitleB
  /\ \E m \in DOMAIN notes \ {req.id} :
       /\ notes[m].content = CLinkTag
       /\ LinkTargets(links, m) = {TitleB}
       /\ TagsOf(tags, m) = {<<"x">>}
       /\ CopiesIn(FtsDoc(m, notes[m]), fts) = 1

\* C19 as claimed: an update leaves the set of note ids as it is, and a
\* create never gives a note an id that a note has held before.
C19_IdsNeverReused ==
  [][/\ req'.op = "update" => DOMAIN notes' = DOMAIN notes
     /\ req'.op = "create" => (DOMAIN notes' \ DOMAIN notes) \cap held = {}]_vars

====
